---- MODULE Spec2Model ----
(***************************************************************************)
(* State-machine model of backend/server.py (Financial Guardian API).      *)
(*                                                                         *)
(* The MongoDB collections are the shared state.  Every request is served  *)
(* by a coroutine; each `await db.<collection>.<op>(...)` is one atomic    *)
(* single-document store operation and the only place where another        *)
(* request can interleave, so every action below is one store operation    *)
(* together with the local computation that follows it up to the next      *)
(* await (or up to the response).                                          *)
(*                                                                         *)
(* A protected handler is entered by FastAPI only after its dependency     *)
(* get_current_user has returned a User, so a request first runs the gate  *)
(* (Request, GateCheck) and the handler actions are guarded by Authed.     *)
(* The path and body parameters of a request are not read before the       *)
(* handler body runs, so they are drawn when the handler starts.           *)
(***************************************************************************)
EXTENDS Integers, Sequences, FiniteSets, TLC

VARIABLES users, sessions, categories, transactions, goals, now, nextId, req, resp

vars == <<users, sessions, categories, transactions, goals, now, nextId, req, resp>>
stores == <<users, sessions, categories, transactions, goals>>

-----------------------------------------------------------------------------
(* Bounds of the model *)

\* callbacks of the identity provider served after the first login
MaxLogins == 1
\* records created by create_category / create_transaction / create_goal
MaxRecords == 1
\* largest current_amount an add-amount request is allowed to compute
MaxAmount == 3

\* the coroutines that serve requests; Serial: the one that serves them in turn
Procs == {"p1", "p2"}
Serial == {"p1"}
Emails == {"a@x", "b@x"}
Names == {"n1"}
Tokens == {"t1", "t2"}
\* a credential that is not presented is the empty string (falsy in the code)
Creds == Tokens \cup {""}
Targets == {0, 2}
Amounts == {1, 2}

\* timedelta(days=7): the clock counts days
SessionDays == 7
\* the instants the clock visits: the first day and the first day after a
\* session of the first day has expired
Instants == {0, SessionDays + 1}

-----------------------------------------------------------------------------
(* Store helpers: a collection is the sequence of its documents in         *)
(* insertion order; find_one returns the first match.                      *)

Range(s) == {s[i] : i \in DOMAIN s}

\* A filter is given as `hits`, the set of documents that match it.

\* find_one: <<>> for None, <<doc>> for the first document that matches
FindOne(coll, hits) ==
    LET found == SelectSeq(coll, LAMBDA d : d \in hits)
    IN  IF found = <<>> THEN <<>> ELSE <<found[1]>>

\* find(...).to_list(1000)
FindMany(coll, hits) == SelectSeq(coll, LAMBDA d : d \in hits)

\* the position of the first match
FirstMatch(coll, hits) ==
    CHOOSE i \in DOMAIN coll :
       coll[i] \in hits /\ \A j \in 1..(i-1) : coll[j] \notin hits

\* delete_one: removes the first match
DeleteOne(coll, hits) ==
    IF \E i \in DOMAIN coll : coll[i] \in hits
    THEN LET k == FirstMatch(coll, hits)
         IN  SubSeq(coll, 1, k-1) \o SubSeq(coll, k+1, Len(coll))
    ELSE coll

\* delete_many: removes every match
DeleteMany(coll, hits) == SelectSeq(coll, LAMBDA d : d \notin hits)

\* update_one with $set: rewrites the first match d with set[d]
UpdateOne(coll, hits, set) ==
    IF \E i \in DOMAIN coll : coll[i] \in hits
    THEN LET k == FirstMatch(coll, hits)
         IN  [coll EXCEPT ![k] = set[coll[k]]]
    ELSE coll

MatchedCount(coll, hits) ==
    IF \E i \in DOMAIN coll : coll[i] \in hits THEN 1 ELSE 0

----------------
(* Requests *)

\* a coroutine slot with no request in it
Idle ==
    [pc |-> "idle", proc |-> "", op |-> "", cookie |-> "", bearer |-> "", token |-> "",
     session |-> <<>>, checked_at |-> -1, user |-> <<>>, loc |-> <<>>,
     dbcalls |-> {}, status |-> 0, detail |-> "", body |-> <<>>]

Free(p) == req[p].pc = "idle"

\* the response of a request: status code, detail (of an HTTPException), body
Respond(r, code, detail, body) ==
    [r EXCEPT !.pc = "done", !.status = code, !.detail = detail, !.body = body]

\* Request r of coroutine p goes on to its next await.
Continue(p, r) == req' = [req EXCEPT ![p] = r] /\ UNCHANGED resp

\* Request r of coroutine p ends: its response is sent and the slot is free again.
\* resp holds the response until the client has taken it (Deliver).
Finish(p, r) ==
    /\ resp = <<>>
    /\ resp' = <<r>>
    /\ req' = [req EXCEPT ![p] = Idle]

Step(p, r) == IF r.pc = "done" THEN Finish(p, r) ELSE Continue(p, r)

Deliver ==
    /\ resp # <<>>
    /\ resp' = <<>>
    /\ UNCHANGED <<users, sessions, categories, transactions, goals, now, nextId, req>>

\* get_current_user as it would be with the two branches in the other order
PresentedToken_bearerFirst(cookie, bearer) == IF bearer # "" THEN bearer ELSE cookie

\* the token get_current_user presents to the session store
PresentedToken(cookie, bearer) == IF cookie # "" THEN cookie ELSE bearer

\* get_current_user as it would be without the expiry comparison
Expired_never(session, t) == FALSE

\* `expires_at < datetime.now(timezone.utc)`
Expired(session, t) == session.expires_at < t

\* the rows of default_categories: name and color
DefaultCategories ==
    << [name |-> "Alimentacao", color |-> "#EF4444"],
       [name |-> "Transporte", color |-> "#3B82F6"],
       [name |-> "Moradia", color |-> "#8B5CF6"],
       [name |-> "Saude", color |-> "#10B981"],
       [name |-> "Educacao", color |-> "#F59E0B"],
       [name |-> "Entretenimento", color |-> "#EC4899"],
       [name |-> "Salario", color |-> "#22C55E"],
       [name |-> "Investimentos", color |-> "#6366F1"] >>

FirstEmail == "a@x"
FirstToken == "t1"

\* The server keeps no state of its own: it starts on what the database holds.
\* InitEmpty is a database nobody has used yet.
InitEmpty ==
    /\ users = <<>>
    /\ sessions = <<>>
    /\ categories = <<>>
    /\ transactions = <<>>
    /\ goals = <<>>
    /\ now = 0
    /\ nextId = [user |-> 1, session |-> 1, category |-> 1, transaction |-> 1,
                 goal |-> 1]
    /\ req = [p \in Procs |-> Idle]
    /\ resp = <<>>

\* Init is the database as the first login (of FirstEmail, with FirstToken, on
\* day 0) has left it: the user, the default categories, the session.
Init ==
    /\ users = <<[id |-> 1, email |-> FirstEmail, name |-> "n1"]>>
    /\ sessions = <<[id |-> 1, user_id |-> 1, session_token |-> FirstToken,
                     expires_at |-> SessionDays]>>
    /\ categories = [i \in 1..Len(DefaultCategories) |->
                       [id |-> i, user_id |-> 1,
                        name |-> DefaultCategories[i].name,
                        color |-> DefaultCategories[i].color,
                        is_default |-> TRUE]]
    /\ transactions = <<>>
    /\ goals = <<>>
    /\ now = 0
    /\ nextId = [user |-> 2, session |-> 2,
                 category |-> Len(DefaultCategories) + 1, transaction |-> 1,
                 goal |-> 1]
    /\ req = [p \in Procs |-> Idle]
    /\ resp = <<>>

\* time passes
Tick ==
    /\ \E t \in Instants : t > now /\ now' = t
    /\ UNCHANGED <<users, sessions, categories, transactions, goals, nextId, req, resp>>

-----------------------------------------------------------------------------
(* get_current_user *)

\* get_current_user as it would be with a sliding expiry: the session that
\* matches the token of the request gets a new expires_at
GateEffect_sliding(p) ==
    /\ sessions' = [i \in DOMAIN sessions |->
                      IF req[p].session # <<>>
                         /\ sessions[i].id = req[p].session[1].id
                      THEN [sessions[i] EXCEPT !.expires_at = now + SessionDays + 1]
                      ELSE sessions[i]]
    /\ UNCHANGED <<users, categories, transactions, goals, now, nextId>>

\* What get_current_user writes: nothing.
GateEffect(p) ==
    UNCHANGED <<users, sessions, categories, transactions, goals, now, nextId>>

\* A protected request arrives: the token is resolved and the session looked up.
Request(p, cookie, bearer) ==
    /\ Free(p)
    /\ LET token == PresentedToken(cookie, bearer)
           r0 == [Idle EXCEPT !.proc = p, !.op = "protected", !.cookie = cookie,
                              !.bearer = bearer, !.token = token]
           session == FindOne(sessions, {s \in Range(sessions) : s.session_token = token})
           r1 == [r0 EXCEPT !.session = session, !.dbcalls = {"sessions"}]
       IN  Step(p, IF token = "" THEN Respond(r0, 401, "Not authenticated", <<>>)
                   ELSE IF session = <<>>
                   THEN Respond(r1, 401, "Invalid session token", <<>>)
                   ELSE [r1 EXCEPT !.pc = "gate"])
    /\ GateEffect(p)

\* The expiry check against the clock, then the user lookup.  The credentials and
\* the session are locals of get_current_user: only the User is returned.
GateCheck(p) ==
    /\ req[p].pc = "gate"
    /\ LET r0 == [req[p] EXCEPT !.checked_at = now]
           user == FindOne(users, {u \in Range(users) : u.id = r0.session[1].user_id})
           r1 == [r0 EXCEPT !.user = user, !.dbcalls = @ \cup {"users"}]
       IN  Step(p, IF Expired(r0.session[1], now)
                   THEN Respond(r0, 401, "Session expired", <<>>)
                   ELSE IF user = <<>>
                   THEN Respond(r1, 401, "User not found", <<>>)
                   ELSE [Idle EXCEPT !.proc = p, !.op = "protected",
                                     !.pc = "authed", !.user = user,
                                     !.dbcalls = r1.dbcalls])
    /\ GateEffect(p)

\* Depends(get_current_user) has returned current_user
Authed(p) == req[p].pc = "authed"
CurrentUser(p) == req[p].user[1]

\* the handler body of `op` starts with a call on collection coll
Touch(r, op, coll) == [r EXCEPT !.op = op, !.dbcalls = @ \cup {coll}]

-----------------------------------------------------------------------------
(* auth_callback, get_me, logout *)

get_me(p) ==
    /\ Authed(p)
    /\ Step(p, Respond([req[p] EXCEPT !.op = "get_me"], 200, "", req[p].user))
    /\ UNCHANGED <<users, sessions, categories, transactions, goals, now, nextId>>

\* logout reads the cookie only: a bearer credential is not a parameter of it
logout(p, cookie, bearer) ==
    /\ Free(p)
    /\ sessions' = IF cookie # ""
                   THEN DeleteMany(sessions,
                        {s \in Range(sessions) : s.session_token = cookie})
                   ELSE sessions
    /\ Step(p, Respond([Idle EXCEPT !.proc = p, !.op = "logout",
                                    !.cookie = cookie, !.bearer = bearer,
                                    !.dbcalls = IF cookie # "" THEN {"sessions"}
                                                ELSE {}],
                       200, "", <<>>))
    /\ UNCHANGED <<users, categories, transactions, goals, now, nextId>>

\* callbacks started so far: finished ones have inserted a session
CallbacksStarted ==
    (nextId.session - 2) + Cardinality({q \in Procs : req[q].op = "auth_callback"})

\* the callback as it would be with the default categories outside the branch
AfterLookup_seedAlways(user) ==
    IF user = <<>> THEN "cb_insert_user" ELSE "cb_insert_category"

\* `if not user:` the user and its default categories are inserted, `else:` the
\* callback goes on to the session
AfterLookup(user) ==
    IF user = <<>> THEN "cb_insert_user" ELSE "cb_insert_session"

\* The provider has answered the session-data call (ok: with a 2xx status);
\* the user is looked up by email.
CallbackStart(p, ok, email, name, token) ==
    /\ Free(p)
    /\ CallbacksStarted < MaxLogins
    /\ LET user == FindOne(users, {u \in Range(users) : u.email = email})
           r0 == [Idle EXCEPT !.proc = p, !.op = "auth_callback"]
           r1 == [r0 EXCEPT !.dbcalls = {"users"},
                            !.loc = [email |-> email, name |-> name,
                                     session_token |-> token,
                                     user_id |-> IF user = <<>> THEN 0
                                                 ELSE user[1].id,
                                     created |-> FALSE, i |-> 1]]
       IN  Step(p, IF ~ok THEN Respond(r0, 400, "Auth failed", <<>>)
                   ELSE [r1 EXCEPT !.pc = AfterLookup(user)])
    /\ UNCHANGED <<users, sessions, categories, transactions, goals, now, nextId>>

CallbackInsertUser(p) ==
    /\ req[p].pc = "cb_insert_user"
    /\ users' = Append(users, [id |-> nextId.user, email |-> req[p].loc.email,
                               name |-> req[p].loc.name])
    /\ nextId' = [nextId EXCEPT !.user = @ + 1]
    /\ Step(p, [req[p] EXCEPT !.loc.user_id = nextId.user, !.loc.created = TRUE,
                              !.pc = "cb_insert_category"])
    /\ UNCHANGED <<sessions, categories, transactions, goals, now>>

CallbackInsertCategory(p) ==
    /\ req[p].pc = "cb_insert_category"
    /\ LET i == req[p].loc.i
       IN  /\ categories' = Append(categories,
                [id |-> nextId.category, user_id |-> req[p].loc.user_id,
                 name |-> DefaultCategories[i].name,
                 color |-> DefaultCategories[i].color, is_default |-> TRUE])
           /\ nextId' = [nextId EXCEPT !.category = @ + 1]
           /\ Step(p, [req[p] EXCEPT !.loc.i = i + 1,
                                     !.dbcalls = @ \cup {"categories"},
                                     !.pc = IF i = Len(DefaultCategories)
                                            THEN "cb_insert_session"
                                            ELSE "cb_insert_category"])
    /\ UNCHANGED <<users, sessions, transactions, goals, now>>

CallbackInsertSession(p) ==
    /\ req[p].pc = "cb_insert_session"
    /\ LET new_session == [id |-> nextId.session, user_id |-> req[p].loc.user_id,
                           session_token |-> req[p].loc.session_token,
                           expires_at |-> now + SessionDays]
       IN  /\ sessions' = Append(sessions, new_session)
           /\ Step(p, Respond([req[p] EXCEPT !.dbcalls = @ \cup {"sessions"},
                                             !.session = <<new_session>>],
                              200, "", <<>>))
    /\ nextId' = [nextId EXCEPT !.session = @ + 1]
    /\ UNCHANGED <<users, categories, transactions, goals, now>>

-----------------------------------------------------------------------------
(* Goals *)

\* a list operation as it would be without its filter
OwnedBy_all(doc, p) == TRUE

\* the filter {"user_id": current_user.id} of the list operations
OwnedBy(doc, p) == doc.user_id = CurrentUser(p).id

\* a filter by id alone
Own_anyUser(doc, p, id) == doc.id = id

\* the filter {"id": <id>, "user_id": current_user.id}
Own(doc, p, id) == doc.id = id /\ doc.user_id = CurrentUser(p).id

\* default categories that the callbacks in flight have still to insert
RECURSIVE DefaultsPending(_)
DefaultsPending(ps) ==
    IF ps = {} THEN 0
    ELSE LET q == CHOOSE x \in ps : TRUE
         IN  (IF req[q].pc = "cb_insert_category"
              THEN Len(DefaultCategories) + 1 - req[q].loc.i ELSE 0)
             + DefaultsPending(ps \ {q})

\* records created through create_category, create_transaction, create_goal
Created ==
    (nextId.category - 1 - Len(DefaultCategories) * (nextId.user - 1)
        + DefaultsPending(Procs))
    + (nextId.transaction - 1) + (nextId.goal - 1)

get_goals(p) ==
    /\ Authed(p)
    /\ Step(p, Respond(Touch(req[p], "get_goals", "goals"), 200, "",
                       FindMany(goals, {g \in Range(goals) : OwnedBy(g, p)})))
    /\ UNCHANGED <<users, sessions, categories, transactions, goals, now, nextId>>

\* a goal as it would be if the request could choose its status
NewGoal_paused(p, target_amount) ==
    [id |-> nextId.goal, user_id |-> CurrentUser(p).id,
     target_amount |-> target_amount, current_amount |-> 0, status |-> "paused"]

\* Goal(user_id=current_user.id, **goal_data.dict()): current_amount and status
\* take their defaults
NewGoal(p, target_amount) ==
    [id |-> nextId.goal, user_id |-> CurrentUser(p).id,
     target_amount |-> target_amount, current_amount |-> 0, status |-> "active"]

create_goal(p, target_amount) ==
    /\ Authed(p)
    /\ Created < MaxRecords
    /\ LET goal == NewGoal(p, target_amount)
       IN  /\ goals' = Append(goals, goal)
           /\ Step(p, Respond(Touch(req[p], "create_goal", "goals"), 200, "",
                              <<goal>>))
    /\ nextId' = [nextId EXCEPT !.goal = @ + 1]
    /\ UNCHANGED <<users, sessions, categories, transactions, now>>

\* the status as it would be with > for >=
NewStatus_gt(goal, new_amount) ==
    IF new_amount > goal.target_amount THEN "completed" ELSE goal.status

\* GoalStatus.COMPLETED if new_amount >= goal["target_amount"] else goal["status"]
NewStatus(goal, new_amount) ==
    IF new_amount >= goal.target_amount THEN "completed" ELSE goal.status

\* Query(..., gt=0)
ValidAmount(amount) == amount > 0

\* add_to_goal up to its second await: the goal is read, the new values computed.
\* An amount that is not positive is refused with a 422 before the body runs.
add_to_goal(p, goal_id, amount) ==
    /\ Authed(p)
    /\ LET goal == FindOne(goals, {g \in Range(goals) : Own(g, p, goal_id)})
           r0 == [Touch(req[p], "add_to_goal", "goals") EXCEPT
                      !.loc = [id |-> goal_id, amount |-> amount]]
       IN  IF ~ValidAmount(amount)
           THEN Step(p, Respond([req[p] EXCEPT !.op = "add_to_goal",
                                     !.loc = [id |-> goal_id, amount |-> amount]],
                                422, "Unprocessable Entity", <<>>))
           ELSE IF goal = <<>>
           THEN Step(p, Respond(r0, 404, "Goal not found", <<>>))
           ELSE LET new_amount == goal[1].current_amount + amount
                    status == NewStatus(goal[1], new_amount)
                IN  /\ new_amount <= MaxAmount
                    /\ Step(p, [r0 EXCEPT !.pc = "atg_update",
                                   !.loc = [id |-> goal_id, amount |-> amount,
                                            goal |-> goal[1],
                                            new_amount |-> new_amount,
                                            status |-> status]])
    /\ UNCHANGED <<users, sessions, categories, transactions, goals, now, nextId>>

\* the update as it would be with an atomic {"$inc": {"current_amount": amount}}
GoalSet_inc(g, p) ==
    [g EXCEPT !.current_amount = g.current_amount + req[p].loc.amount,
              !.status = IF g.current_amount + req[p].loc.amount >= g.target_amount
                         THEN "completed" ELSE g.status]

\* {"$set": {"current_amount": new_amount, "status": status}} applied to g
GoalSet(g, p) ==
    [g EXCEPT !.current_amount = req[p].loc.new_amount,
              !.status = req[p].loc.status]

\* the update_one of add_to_goal
AddToGoalUpdate(p) ==
    /\ req[p].pc = "atg_update"
    /\ goals' = UpdateOne(goals,
                        {g \in Range(goals) : Own(g, p, req[p].loc.id)},
                        [g \in Range(goals) |-> GoalSet(g, p)])
    /\ Step(p, [req[p] EXCEPT !.pc = "atg_reread"])
    /\ UNCHANGED <<users, sessions, categories, transactions, now, nextId>>

\* the final find_one; Goal(**None) raises, which the server answers with a 500
AddToGoalReread(p) ==
    /\ req[p].pc = "atg_reread"
    /\ LET updated_goal == FindOne(goals, {g \in Range(goals) : Own(g, p, req[p].loc.id)})
       IN  Step(p, IF updated_goal = <<>>
                   THEN Respond(req[p], 500, "Internal Server Error", <<>>)
                   ELSE Respond(req[p], 200, "", updated_goal))
    /\ UNCHANGED <<users, sessions, categories, transactions, goals, now, nextId>>

delete_goal(p, goal_id) ==
    /\ Authed(p)
    /\ goals' = DeleteOne(goals, {g \in Range(goals) : Own(g, p, goal_id)})
    /\ LET r0 == [Touch(req[p], "delete_goal", "goals") EXCEPT
                      !.loc = [id |-> goal_id]]
       IN  Step(p, IF MatchedCount(goals, {g \in Range(goals) : Own(g, p, goal_id)}) = 0
                   THEN Respond(r0, 404, "Goal not found", <<>>)
                   ELSE Respond(r0, 200, "", <<>>))
    /\ UNCHANGED <<users, sessions, categories, transactions, now, nextId>>

-----------------------------------------------------------------------------
(* Categories *)

get_categories(p) ==
    /\ Authed(p)
    /\ Step(p, Respond(Touch(req[p], "get_categories", "categories"), 200, "",
                       FindMany(categories, {c \in Range(categories) : OwnedBy(c, p)})))
    /\ UNCHANGED <<users, sessions, categories, transactions, goals, now, nextId>>

create_category(p, category_data) ==
    /\ Authed(p)
    /\ Created < MaxRecords
    /\ LET category == [id |-> nextId.category, user_id |-> CurrentUser(p).id,
                        name |-> category_data.name,
                        color |-> category_data.color, is_default |-> FALSE]
       IN  /\ categories' = Append(categories, category)
           /\ Step(p, Respond(Touch(req[p], "create_category", "categories"),
                              200, "", <<category>>))
    /\ nextId' = [nextId EXCEPT !.category = @ + 1]
    /\ UNCHANGED <<users, sessions, transactions, goals, now>>

delete_category(p, category_id) ==
    /\ Authed(p)
    /\ categories' = DeleteOne(categories,
                        {c \in Range(categories) : Own(c, p, category_id)})
    /\ LET r0 == [Touch(req[p], "delete_category", "categories") EXCEPT
                      !.loc = [id |-> category_id]]
       IN  Step(p, IF MatchedCount(categories,
                        {c \in Range(categories) : Own(c, p, category_id)}) = 0
                   THEN Respond(r0, 404, "Category not found", <<>>)
                   ELSE Respond(r0, 200, "", <<>>))
    /\ UNCHANGED <<users, sessions, transactions, goals, now, nextId>>

-----------------------------------------------------------------------------
(* Transactions *)

\* a datetime, compared as Python compares aware datetimes of one timezone
DateLt(a, b) ==
    \/ a.y < b.y
    \/ a.y = b.y /\ a.m < b.m
    \/ a.y = b.y /\ a.m = b.m /\ a.d < b.d
DateLe(a, b) == a = b \/ DateLt(a, b)

\* sort("date", -1): a stable sort, latest date first
RECURSIVE SortByDateDesc(_)
SortByDateDesc(s) ==
    IF s = <<>> THEN <<>>
    ELSE LET rest == SortByDateDesc(Tail(s))
             before == SelectSeq(rest, LAMBDA t : DateLt(s[1].date, t.date))
             after == SelectSeq(rest, LAMBDA t : ~DateLt(s[1].date, t.date))
         IN  before \o <<s[1]>> \o after

get_transactions(p) ==
    /\ Authed(p)
    /\ Step(p, Respond(Touch(req[p], "get_transactions", "transactions"), 200, "",
                       SortByDateDesc(FindMany(transactions,
                        {t \in Range(transactions) : OwnedBy(t, p)}))))
    /\ UNCHANGED <<users, sessions, categories, transactions, goals, now, nextId>>

create_transaction(p, transaction_data) ==
    /\ Authed(p)
    /\ Created < MaxRecords
    /\ LET transaction == [id |-> nextId.transaction,
                           user_id |-> CurrentUser(p).id,
                           amount |-> transaction_data.amount,
                           type |-> transaction_data.type,
                           category_id |-> transaction_data.category_id,
                           date |-> transaction_data.date]
       IN  /\ transactions' = Append(transactions, transaction)
           /\ Step(p, Respond(Touch(req[p], "create_transaction", "transactions"),
                              200, "", <<transaction>>))
    /\ nextId' = [nextId EXCEPT !.transaction = @ + 1]
    /\ UNCHANGED <<users, sessions, categories, goals, now>>

\* update_transaction up to its second await: the update_one with $set
update_transaction(p, transaction_id, transaction_data) ==
    /\ Authed(p)
    /\ transactions' = UpdateOne(transactions,
                        {t \in Range(transactions) : Own(t, p, transaction_id)},
                        [t \in Range(transactions) |-> [t EXCEPT
                              !.amount = transaction_data.amount, !.type = transaction_data.type,
                              !.category_id = transaction_data.category_id, !.date = transaction_data.date]])
    /\ LET r0 == [Touch(req[p], "update_transaction", "transactions") EXCEPT
                      !.loc = [id |-> transaction_id, data |-> transaction_data]]
       IN  Step(p, IF MatchedCount(transactions,
                        {t \in Range(transactions) : Own(t, p, transaction_id)}) = 0
                   THEN Respond(r0, 404, "Transaction not found", <<>>)
                   ELSE [r0 EXCEPT !.pc = "ut_reread"])
    /\ UNCHANGED <<users, sessions, categories, goals, now, nextId>>

\* the final find_one; Transaction(**None) raises, answered with a 500
UpdateTransactionReread(p) ==
    /\ req[p].pc = "ut_reread"
    /\ LET updated_transaction ==
               FindOne(transactions,
                       {t \in Range(transactions) : Own(t, p, req[p].loc.id)})
       IN  Step(p, IF updated_transaction = <<>>
                   THEN Respond(req[p], 500, "Internal Server Error", <<>>)
                   ELSE Respond(req[p], 200, "", updated_transaction))
    /\ UNCHANGED <<users, sessions, categories, transactions, goals, now, nextId>>

delete_transaction(p, transaction_id) ==
    /\ Authed(p)
    /\ transactions' = DeleteOne(transactions,
                        {t \in Range(transactions) : Own(t, p, transaction_id)})
    /\ LET r0 == [Touch(req[p], "delete_transaction", "transactions") EXCEPT
                      !.loc = [id |-> transaction_id]]
       IN  Step(p, IF MatchedCount(transactions,
                        {t \in Range(transactions) : Own(t, p, transaction_id)}) = 0
                   THEN Respond(r0, 404, "Transaction not found", <<>>)
                   ELSE Respond(r0, 200, "", <<>>))
    /\ UNCHANGED <<users, sessions, categories, goals, now, nextId>>

-----------------------------------------------------------------------------
(* Monthly report *)

\* datetime(year, month, 1, tzinfo=timezone.utc)
StartDate(year, month) == [y |-> year, m |-> month, d |-> 1]

EndDate(year, month) ==
    IF month = 12 THEN [y |-> year + 1, m |-> 1, d |-> 1]
    ELSE [y |-> year, m |-> month + 1, d |-> 1]

\* the filter as it would be with $lte for $lt
InMonth_closed(t, p, year, month) ==
    /\ OwnedBy(t, p)
    /\ DateLe(StartDate(year, month), t.date)
    /\ DateLe(t.date, EndDate(year, month))

\* {"user_id": ..., "date": {"$gte": start_date, "$lt": end_date}}
InMonth(t, p, year, month) ==
    /\ OwnedBy(t, p)
    /\ DateLe(StartDate(year, month), t.date)
    /\ DateLt(t.date, EndDate(year, month))

\* the sum as it would be without the condition on the type
RECURSIVE SumOfType_any(_, _)
SumOfType_any(txns, type) ==
    IF txns = <<>> THEN 0 ELSE txns[1].amount + SumOfType_any(Tail(txns), type)

\* sum(t["amount"] for t in transactions if t["type"] == type)
RECURSIVE SumOfType(_, _)
SumOfType(txns, type) ==
    IF txns = <<>> THEN 0
    ELSE (IF txns[1].type = type THEN txns[1].amount ELSE 0)
         + SumOfType(Tail(txns), type)

\* category_totals: a dict keeps its keys in the order of first insertion
RECURSIVE CategoryTotals(_, _)
CategoryTotals(txns, acc) ==
    IF txns = <<>> THEN acc
    ELSE LET txn == txns[1]
             known == \E i \in DOMAIN acc : acc[i].cat_id = txn.category_id
             acc1 == IF txn.type # "expense" THEN acc
                     ELSE IF known
                     THEN [i \in DOMAIN acc |->
                             IF acc[i].cat_id = txn.category_id
                             THEN [acc[i] EXCEPT !.amount = @ + txn.amount]
                             ELSE acc[i]]
                     ELSE Append(acc, [cat_id |-> txn.category_id,
                                       amount |-> txn.amount])
         IN  CategoryTotals(Tail(txns), acc1)

\* sorted(items, key=amount, reverse=True): stable, largest amount first
RECURSIVE SortByAmountDesc(_)
SortByAmountDesc(s) ==
    IF s = <<>> THEN <<>>
    ELSE LET rest == SortByAmountDesc(Tail(s))
             before == SelectSeq(rest, LAMBDA e : e.amount > s[1].amount)
             after == SelectSeq(rest, LAMBDA e : e.amount <= s[1].amount)
         IN  before \o <<s[1]>> \o after

TopN == 5

\* the sorted totals as they would be without the slice
Top_all(s) == s

\* [:5]
Top(s) == SubSeq(s, 1, IF Len(s) < TopN THEN Len(s) ELSE TopN)

\* the loop that joins the sorted totals with cat_dict
RECURSIVE TopCategories(_, _)
TopCategories(sorted, cats) ==
    IF sorted = <<>> THEN <<>>
    ELSE LET hit == SelectSeq(cats, LAMBDA c : c.id = sorted[1].cat_id)
             rest == TopCategories(Tail(sorted), cats)
         IN  IF hit = <<>> THEN rest
             ELSE <<[category |-> hit[Len(hit)].name,
                     amount |-> sorted[1].amount,
                     color |-> hit[Len(hit)].color]>> \o rest

\* f"{month:02d}"
Pad2(month) ==
    <<"01", "02", "03", "04", "05", "06", "07", "08", "09", "10", "11", "12">>[month]

MonthlyReport(year, month, txns, cats) ==
    LET total_income == SumOfType(txns, "income")
        total_expenses == SumOfType(txns, "expense")
    IN  [month |-> Pad2(month), year |-> year,
         total_income |-> total_income, total_expenses |-> total_expenses,
         balance |-> total_income - total_expenses,
         transactions_count |-> Len(txns),
         top_categories |->
            TopCategories(Top(SortByAmountDesc(CategoryTotals(txns, <<>>))), cats)]

\* get_monthly_report up to its second await: the transactions of the month are read
get_monthly_report(p, year, month) ==
    /\ Authed(p)
    /\ Step(p, [Touch(req[p], "get_monthly_report", "transactions") EXCEPT
                   !.pc = "rep_categories",
                   !.loc = [year |-> year, month |-> month, categories |-> <<>>,
                            transactions |->
                               FindMany(transactions,
                        {t \in Range(transactions) : InMonth(t, p, year, month)})]])
    /\ UNCHANGED <<users, sessions, categories, transactions, goals, now, nextId>>

\* the categories are read and the report computed
MonthlyReportCategories(p) ==
    /\ req[p].pc = "rep_categories"
    /\ LET cats == FindMany(categories, {c \in Range(categories) : OwnedBy(c, p)})
       IN  Step(p, Respond([req[p] EXCEPT !.dbcalls = @ \cup {"categories"},
                                          !.loc.categories = cats],
                           200, "",
                           <<MonthlyReport(req[p].loc.year, req[p].loc.month,
                                           req[p].loc.transactions, cats)>>))
    /\ UNCHANGED <<users, sessions, categories, transactions, goals, now, nextId>>

-----------------------------------------------------------------------------
(* The inputs of the requests *)

\* the ids a request may address: those handed out so far and one never used
GoalIds == 1..nextId.goal
TransactionIds == 1..nextId.transaction
\* of the categories: the first default one, the created ones, one never used
CategoryIds ==
    {1} \cup {c.id : c \in {d \in Range(categories) : ~d.is_default}}
        \cup {nextId.category}

CategoryBodies == {[name |-> "Lazer", color |-> "#3B82F6"]}

Jan1 == [y |-> 2025, m |-> 1, d |-> 1]
Feb1 == [y |-> 2025, m |-> 2, d |-> 1]

TransactionBodies ==
    {[amount |-> 1, type |-> "income", category_id |-> 1, date |-> Jan1],
     [amount |-> 2, type |-> "expense", category_id |-> 1, date |-> Feb1]}

ReportMonths == {<<2025, 1>>}

-----------------------------------------------------------------------------
Auth(p) ==
    \/ \E cookie \in Creds, bearer \in Creds : Request(p, cookie, bearer)
    \/ GateCheck(p)
    \/ get_me(p)
    \/ \E cookie \in Creds, bearer \in Creds : logout(p, cookie, bearer)
    \/ \E ok \in BOOLEAN, email \in Emails, name \in Names, token \in Tokens :
          CallbackStart(p, ok, email, name, token)
    \/ CallbackInsertUser(p)
    \/ CallbackInsertCategory(p)
    \/ CallbackInsertSession(p)

Categories(p) ==
    \/ get_categories(p)
    \/ \E b \in CategoryBodies : create_category(p, b)
    \/ \E c \in CategoryIds : delete_category(p, c)

Transactions(p) ==
    \/ get_transactions(p)
    \/ \E b \in TransactionBodies : create_transaction(p, b)
    \/ \E t \in TransactionIds, b \in TransactionBodies : update_transaction(p, t, b)
    \/ UpdateTransactionReread(p)
    \/ \E t \in TransactionIds : delete_transaction(p, t)

Goals(p) ==
    \/ get_goals(p)
    \/ \E t \in Targets : create_goal(p, t)
    \/ \E g \in GoalIds, a \in Amounts \cup {0} : add_to_goal(p, g, a)
    \/ AddToGoalUpdate(p)
    \/ AddToGoalReread(p)
    \/ \E g \in GoalIds : delete_goal(p, g)

Reports(p) ==
    \/ \E ym \in ReportMonths : get_monthly_report(p, ym[1], ym[2])
    \/ MonthlyReportCategories(p)

Handlers(p) == Auth(p) \/ Categories(p) \/ Transactions(p) \/ Goals(p) \/ Reports(p)

\* requests are served one at a time
Next ==
    \/ Tick
    \/ Deliver
    \/ \E p \in Serial : Handlers(p)

Spec == Init /\ [][Next]_vars

\* Two requests of the logged-in user on the goals are served concurrently:
\* they interleave at every await.
RaceNext ==
    \/ Deliver
    \/ \E p \in Procs : Request(p, FirstToken, "")
    \/ \E p \in Procs : GateCheck(p)
    \/ \E p \in Procs : Goals(p)

RaceSpec == Init /\ [][RaceNext]_vars

-----------------------------------------------------------------------------
(* The monthly report over stored transactions of every shape.  The       *)
(* database holds two users with their default categories and a history   *)
(* of transactions that create_transaction has stored; the first user     *)
(* asks for reports and may delete its first category.                    *)

\* transactions drawn freely at the end of a history
MaxTxns == 3

Dec1 == [y |-> 2024, m |-> 12, d |-> 1]
Dec31 == [y |-> 2024, m |-> 12, d |-> 31]
Jan31 == [y |-> 2025, m |-> 1, d |-> 31]

\* what a stored transaction may be: TransactionCreate and the user who sent it.
\* category_id is not validated: 9 is a category of the second user.
ReportBodies ==
    {[user_id |-> 1, amount |-> 1, type |-> "income", category_id |-> 7, date |-> Jan1],
     [user_id |-> 1, amount |-> 2, type |-> "expense", category_id |-> 1, date |-> Jan1],
     [user_id |-> 1, amount |-> 1, type |-> "expense", category_id |-> 2, date |-> Jan31],
     [user_id |-> 1, amount |-> 2, type |-> "expense", category_id |-> 2, date |-> Feb1],
     [user_id |-> 1, amount |-> 1, type |-> "expense", category_id |-> 9, date |-> Jan1],
     [user_id |-> 2, amount |-> 3, type |-> "expense", category_id |-> 1, date |-> Jan1],
     [user_id |-> 1, amount |-> 2, type |-> "income", category_id |-> 7, date |-> Dec31],
     [user_id |-> 1, amount |-> 1, type |-> "expense", category_id |-> 3, date |-> Dec1]}

\* five expenses of January in five categories, with equal amounts
FiveGroups ==
    [i \in 1..5 |->
        [user_id |-> 1, amount |-> 2, type |-> "expense",
         category_id |-> <<3, 4, 5, 6, 8>>[i], date |-> Jan1]]

ReportHistories ==
    {h \o t : h \in {<<>>, FiveGroups},
              t \in UNION {[1..n -> ReportBodies] : n \in 0..MaxTxns}}

ReportMonthsAll == {<<2024, 12>>, <<2025, 1>>}

ReportInit ==
    /\ users = <<[id |-> 1, email |-> "a@x", name |-> "n1"],
                 [id |-> 2, email |-> "b@x", name |-> "n1"]>>
    /\ sessions = <<[id |-> 1, user_id |-> 1, session_token |-> "t1",
                     expires_at |-> SessionDays],
                    [id |-> 2, user_id |-> 2, session_token |-> "t2",
                     expires_at |-> SessionDays]>>
    /\ categories = [i \in 1..(2 * Len(DefaultCategories)) |->
                       LET k == ((i - 1) % Len(DefaultCategories)) + 1
                       IN  [id |-> i,
                            user_id |-> ((i - 1) \div Len(DefaultCategories)) + 1,
                            name |-> DefaultCategories[k].name,
                            color |-> DefaultCategories[k].color,
                            is_default |-> TRUE]]
    /\ \E h \in ReportHistories :
          transactions = [i \in 1..Len(h) |->
                             [id |-> i, user_id |-> h[i].user_id,
                              amount |-> h[i].amount, category_id |-> h[i].category_id,
                              date |-> h[i].date, type |-> h[i].type]]
    /\ goals = <<>>
    /\ now = 0
    /\ nextId = [user |-> 3, session |-> 3,
                 category |-> 2 * Len(DefaultCategories) + 1,
                 transaction |-> Len(transactions) + 1, goal |-> 1]
    /\ req = [p \in Procs |-> Idle]
    /\ resp = <<>>

ReportNext ==
    \/ Deliver
    \/ \E p \in Serial : Request(p, FirstToken, "")
    \/ \E p \in Serial : GateCheck(p)
    \/ \E p \in Serial : delete_category(p, 1)
    \/ \E p \in Serial, ym \in ReportMonthsAll : get_monthly_report(p, ym[1], ym[2])
    \/ \E p \in Serial : MonthlyReportCategories(p)

ReportSpec == ReportInit /\ [][ReportNext]_vars

-----------------------------------------------------------------------------
(* Logins on a database nobody has used yet: the callbacks of two          *)
(* coroutines interleave at every await.  The first coroutine logs in     *)
(* FirstEmail, the second one any email; days pass between the requests.  *)

\* the provider gives every login a session token of its own
TokenOf == [p1 |-> "t1", p2 |-> "t2"]
EmailsOf == [p1 |-> {FirstEmail}, p2 |-> Emails]

LoginNext ==
    \/ Tick /\ \A p \in Procs : Free(p)
    \/ Deliver
    \/ \E p \in Procs, ok \in BOOLEAN : \E email \in EmailsOf[p] :
          CallbackStart(p, ok, email, "n1", TokenOf[p])
    \/ \E p \in Procs : CallbackInsertUser(p)
    \/ \E p \in Procs : CallbackInsertCategory(p)
    \/ \E p \in Procs : CallbackInsertSession(p)

LoginSpec == InitEmpty /\ [][LoginNext]_vars

-----------------------------------------------------------------------------
(* Properties *)

\* coroutine p takes a step
Moves(p) == req'[p] # req[p]

\* coroutine p answers its request in this step
Answers(p) == resp = <<>> /\ resp' # <<>> /\ resp'[1].proc = p

\* a protected request arrives at coroutine p in this step
Arrives(p) ==
    /\ req[p].pc = "idle"
    /\ \/ req'[p].pc = "gate"
       \/ Answers(p) /\ resp'[1].op = "protected"

\* the response in resp is a response of operation op
Answered(op) == resp # <<>> /\ resp[1].op = op

HasSession(token) == \E s \in Range(sessions) : s.session_token = token

RecordCollections == {"categories", "transactions", "goals"}

\* C1: get_current_user decides in a fixed order.  The token is the cookie if a
\* cookie is present, else the bearer credential; without a token the request
\* fails as "Not authenticated" with no store lookup; without a session of that
\* token as "Invalid session token"; with an expired session as "Session
\* expired" before the user is looked up; without a user of the session's
\* user_id as "User not found"; else it returns the user whose id is the
\* session's user_id.  Every failure is a 401.
GateOrder ==
    [][\A p \in Procs :
        /\ Arrives(p) =>
             LET r == IF req'[p].pc = "gate" THEN req'[p] ELSE resp'[1]
                 failed == r.pc = "done" /\ r.status = 401
             IN  /\ r.cookie # "" => r.token = r.cookie
                 /\ r.cookie = "" => r.token = r.bearer
                 /\ IF r.cookie = "" /\ r.bearer = ""
                    THEN failed /\ r.detail = "Not authenticated" /\ r.dbcalls = {}
                    ELSE IF ~HasSession(r.token)
                    THEN failed /\ r.detail = "Invalid session token"
                    ELSE /\ r.pc = "gate"
                         /\ Len(r.session) = 1
                         /\ r.session[1] \in Range(sessions)
                         /\ r.session[1].session_token = r.token
        /\ (req[p].pc = "gate" /\ Moves(p)) =>
             LET s == req[p].session[1]
             IN  IF s.expires_at < now
                 THEN /\ Answers(p)
                      /\ resp'[1].status = 401
                      /\ resp'[1].detail = "Session expired"
                      /\ "users" \notin resp'[1].dbcalls
                 ELSE IF ~\E u \in Range(users) : u.id = s.user_id
                 THEN /\ Answers(p)
                      /\ resp'[1].status = 401
                      /\ resp'[1].detail = "User not found"
                 ELSE /\ req'[p].pc = "authed"
                      /\ Len(req'[p].user) = 1
                      /\ req'[p].user[1] \in Range(users)
                      /\ req'[p].user[1].id = s.user_id
      ]_vars

\* C1, witness: a request that presented a cookie and a different bearer
\* credential has failed on the expired session of the cookie.
GateOrderWitness ==
    /\ resp # <<>>
    /\ resp[1].detail = "Session expired"
    /\ resp[1].cookie # ""
    /\ resp[1].bearer \notin {"", resp[1].cookie}
    /\ resp[1].session[1].session_token = resp[1].cookie
    /\ HasSession(resp[1].bearer)

\* the operations behind Depends(get_current_user)
ProtectedOps ==
    {"get_me", "get_categories", "create_category", "delete_category",
     "get_transactions", "create_transaction", "update_transaction",
     "delete_transaction", "get_goals", "create_goal", "add_to_goal",
     "delete_goal", "get_monthly_report"}

\* the requests in flight and the one just answered
Requests == {req[p] : p \in Procs} \cup Range(resp)

\* C2: a protected request whose session has an expires_at earlier than the
\* clock at the check fails with a 401 and has read and written none of
\* categories, transactions, goals; and every handler of a protected operation
\* runs for a request that has passed the gate.
ExpiredSessionFails ==
    /\ [](\A r \in Requests :
            r.op \in ProtectedOps =>
               /\ r.user # <<>>
               /\ {"sessions", "users"} \subseteq r.dbcalls)
    /\ [][\A p \in Procs :
            (req[p].pc = "gate" /\ req[p].session[1].expires_at < now /\ Moves(p)) =>
               /\ Answers(p)
               /\ req'[p] = Idle
               /\ resp'[1].status = 401
               /\ resp'[1].op \notin ProtectedOps
               /\ resp'[1].dbcalls \cap RecordCollections = {}
               /\ UNCHANGED <<categories, transactions, goals>>
         ]_vars

\* C2, witness: a request has failed on an expired session while the store held
\* a goal of the session's user.
ExpiredSessionFailsWitness ==
    /\ resp # <<>>
    /\ resp[1].status = 401
    /\ resp[1].session # <<>>
    /\ resp[1].session[1].expires_at < now
    /\ \E g \in Range(goals) : g.user_id = resp[1].session[1].user_id

\* C3: get_current_user is read-only: its steps leave every collection
\* unchanged; and no step of any operation changes the expires_at of a stored
\* session, which is the login time plus 7 days from its insertion on.
GateReadOnly ==
    [][/\ \A p \in Procs :
             (Arrives(p) \/ (req[p].pc = "gate" /\ Moves(p))) =>
                UNCHANGED <<users, sessions, categories, transactions, goals>>
       /\ \A j \in DOMAIN sessions' :
             IF \E i \in DOMAIN sessions : sessions[i].id = sessions'[j].id
             THEN sessions'[j] \in Range(sessions)
             ELSE sessions'[j].expires_at = now + SessionDays
      ]_vars

\* C3, witness: on a later day a request has passed the gate with a session
\* that is still stored with the expires_at of its login.
GateReadOnlyWitness ==
    /\ now > 0
    /\ \E p \in Procs :
          /\ req[p].pc = "authed"
          /\ \E s \in Range(sessions) :
                s.user_id = req[p].user[1].id /\ s.expires_at = now + SessionDays

\* C4: after a logout that presented a token (the cookie, else the bearer
\* credential) no session with that session_token remains; logout answers
\* success.
LogoutRemovesPresentedToken ==
    Answered("logout") =>
       /\ resp[1].status = 200
       /\ LET token == IF resp[1].cookie # "" THEN resp[1].cookie
                       ELSE resp[1].bearer
          IN  token # "" => ~HasSession(token)

\* the 404 of each operation that addresses a record by id
NotFoundDetail ==
    [delete_category |-> "Category not found",
     update_transaction |-> "Transaction not found",
     delete_transaction |-> "Transaction not found",
     add_to_goal |-> "Goal not found",
     delete_goal |-> "Goal not found"]

\* the collection each of them addresses
Addressed(op) ==
    CASE op = "delete_category" -> categories
      [] op \in {"update_transaction", "delete_transaction"} -> transactions
      [] op \in {"add_to_goal", "delete_goal"} -> goals

\* C5: delete_category, update_transaction, delete_transaction, add_to_goal
\* (with a valid amount) and delete_goal answer a request for a record of another
\* user as they answer a request for an id that no record has: with the 404 of
\* the operation, and with every collection unchanged.
ForeignIsNotFound ==
    [][\A p \in Procs :
         (req[p].pc = "authed" /\ Moves(p)) =>
            LET r == IF Answers(p) THEN resp'[1] ELSE req'[p]
            IN  (/\ r.op \in DOMAIN NotFoundDetail
                 /\ r.status # 422
                 /\ \A d \in Range(Addressed(r.op)) :
                       d.id = r.loc.id => d.user_id # req[p].user[1].id)
                => /\ Answers(p)
                   /\ r.status = 404
                   /\ r.detail = NotFoundDetail[r.op]
                   /\ UNCHANGED <<users, sessions, categories, transactions, goals>>
      ]_vars

\* C5, witness: a request for a goal of another user has been answered 404.
ForeignIsNotFoundWitness ==
    /\ resp # <<>>
    /\ resp[1].op \in {"add_to_goal", "delete_goal"}
    /\ resp[1].status = 404
    /\ \E g \in Range(goals) :
          g.id = resp[1].loc.id /\ g.user_id # resp[1].user[1].id

ListOps == {"get_categories", "get_transactions", "get_goals"}
CreateOps == {"create_category", "create_transaction", "create_goal"}


\* the records of collection coll that do not belong to user uid
Foreign(coll, uid) == {d \in Range(coll) : d.user_id # uid}

\* C6: per-user isolation.  A list operation and the monthly report read
\* records of the caller only; a created record is stored with the caller's id;
\* and a step of a request of user U leaves every record of another user as it
\* was.
Isolation ==
    /\ [](\A r \in Requests :
            /\ (r.op \in ListOps /\ r.pc = "done") =>
                  \A i \in DOMAIN r.body : r.body[i].user_id = r.user[1].id
            /\ r.op = "get_monthly_report" =>
                  /\ \A i \in DOMAIN r.loc.transactions :
                        r.loc.transactions[i].user_id = r.user[1].id
                  /\ \A i \in DOMAIN r.loc.categories :
                        r.loc.categories[i].user_id = r.user[1].id
            /\ r.op \in CreateOps => r.body[1].user_id = r.user[1].id)
    /\ [][\A p \in Procs :
            (Moves(p) /\ req[p].user # <<>>) =>
               LET uid == req[p].user[1].id
                   created == resp'[1].body[1]
                   op == IF Answers(p) THEN resp'[1].op ELSE ""
               IN  /\ op = "create_category" =>
                         created.user_id = uid /\ created \in Range(categories')
                   /\ op = "create_transaction" =>
                         created.user_id = uid /\ created \in Range(transactions')
                   /\ op = "create_goal" =>
                         created.user_id = uid /\ created \in Range(goals')
                   /\ Foreign(categories, uid) \subseteq Range(categories')
                   /\ Foreign(transactions, uid) \subseteq Range(transactions')
                   /\ Foreign(goals, uid) \subseteq Range(goals')
         ]_vars

\* C6, witness: the second user has listed the categories and got its own
\* default categories, while the store holds those of the first user as well.
IsolationWitness ==
    /\ Answered("get_categories")
    /\ resp[1].user[1].id = 2
    /\ Len(resp[1].body) = Len(DefaultCategories)
    /\ Len(categories) > Len(resp[1].body)

\* C7: an add-amount call that runs alone stores the stored current_amount
\* plus the amount, and the status completed if that sum reaches the target,
\* else the stored status; it returns the goal as stored.
AddAmountAlone ==
    [][\A p \in Procs :
        /\ (req[p].pc = "atg_update" /\ Moves(p)) =>
              \E i \in DOMAIN goals :
                 LET old == goals[i]
                     sum == old.current_amount + req[p].loc.amount
                 IN  /\ old.id = req[p].loc.id
                     /\ Len(goals') = Len(goals)
                     /\ goals'[i] =
                           [old EXCEPT !.current_amount = sum,
                                       !.status = IF sum >= old.target_amount
                                                  THEN "completed" ELSE old.status]
        /\ (req[p].pc = "atg_reread" /\ Moves(p)) =>
              /\ Answers(p)
              /\ resp'[1].status = 200
              /\ Len(resp'[1].body) = 1
              /\ resp'[1].body[1] \in Range(goals')
              /\ resp'[1].body[1].id = req[p].loc.id
      ]_vars

\* C7, witness: a goal below its target and active has received an amount that
\* takes it over the target; the answer is the completed goal.
AddAmountAloneWitness ==
    /\ Answered("add_to_goal")
    /\ resp[1].status = 200
    /\ resp[1].loc.goal.status = "active"
    /\ resp[1].loc.goal.current_amount > 0
    /\ resp[1].loc.goal.current_amount < resp[1].loc.goal.target_amount
    /\ resp[1].body[1].current_amount > resp[1].body[1].target_amount
    /\ resp[1].body[1].status = "completed"

\* C8: once the stored status of a goal is completed it stays completed for as
\* long as the goal exists, also when add-amount requests interleave.
StatusNeverReverts ==
    [][\A i \in DOMAIN goals, j \in DOMAIN goals' :
          (goals[i].id = goals'[j].id /\ goals[i].status = "completed")
             => goals'[j].status = "completed"
      ]_vars

\* C9: the stored current_amount of a goal is 0 at creation and no step stores
\* a smaller value than the one stored just before it.
AmountNeverDecreases ==
    [][\A j \in DOMAIN goals' :
          IF \E i \in DOMAIN goals : goals[i].id = goals'[j].id
          THEN \A i \in DOMAIN goals :
                  goals[i].id = goals'[j].id
                     => goals'[j].current_amount >= goals[i].current_amount
          ELSE goals'[j].current_amount = 0
      ]_vars

\* C10: add-amount is a read followed by a blind write: the update stores the
\* current_amount the request has read plus its amount, whatever is stored by
\* then, and the request then answers success for as long as the goal exists.
LostUpdate ==
    [][\A p \in Procs :
        /\ (req[p].pc = "atg_update" /\ Moves(p)) =>
              \A i \in DOMAIN goals :
                 goals[i].id = req[p].loc.id =>
                    goals'[i].current_amount =
                       req[p].loc.goal.current_amount + req[p].loc.amount
        /\ (req[p].pc = "atg_reread" /\ Moves(p)
               /\ \E g \in Range(goals) : g.id = req[p].loc.id) =>
              Answers(p) /\ resp'[1].status = 200
      ]_vars

\* C10, witness: two requests have read the same current_amount c of one goal
\* and both have written; one has answered success and the other is about to;
\* the goal holds c plus one of the two amounts.
LostUpdateWitness ==
    /\ Answered("add_to_goal")
    /\ resp[1].status = 200
    /\ \E p \in Procs, g \in Range(goals) :
          /\ req[p].pc = "atg_reread"
          /\ req[p].loc.id = resp[1].loc.id
          /\ g.id = req[p].loc.id
          /\ req[p].loc.goal.current_amount = resp[1].loc.goal.current_amount
          /\ g.current_amount \in
                {req[p].loc.goal.current_amount + req[p].loc.amount,
                 req[p].loc.goal.current_amount + resp[1].loc.amount}
          /\ g.current_amount <
                req[p].loc.goal.current_amount + req[p].loc.amount
                   + resp[1].loc.amount

\* the sum of the amounts of a set of transactions
RECURSIVE SumAmounts(_)
SumAmounts(S) ==
    IF S = {} THEN 0
    ELSE LET t == CHOOSE x \in S : TRUE
         IN  t.amount + SumAmounts(S \ {t})

\* the requests that hold the transactions fetched for a report
Reporting == {r \in Requests : r.op = "get_monthly_report"}

\* C11: in every monthly report total_income is the sum of the amounts of the
\* fetched transactions of type income, total_expenses the sum of those of type
\* expense, whether their category resolves or not, transactions_count the
\* number of fetched transactions, and balance = total_income - total_expenses;
\* with nothing fetched all four are zero.
ReportTotals ==
    Answered("get_monthly_report") =>
       LET report == resp[1].body[1]
           fetched == resp[1].loc.transactions
           income == {t \in Range(fetched) : t.type = "income"}
           expense == {t \in Range(fetched) : t.type = "expense"}
       IN  /\ Cardinality(Range(fetched)) = Len(fetched)
           /\ report.total_income = SumAmounts(income)
           /\ report.total_expenses = SumAmounts(expense)
           /\ report.transactions_count = Cardinality(income) + Cardinality(expense)
           /\ report.balance = report.total_income - report.total_expenses
           /\ fetched = <<>> =>
                 /\ report.total_income = 0
                 /\ report.total_expenses = 0
                 /\ report.balance = 0
                 /\ report.transactions_count = 0

\* C11, witness: a report over incomes and expenses, one of them of a category
\* that does not resolve, with a negative balance.
ReportTotalsWitness ==
    /\ Answered("get_monthly_report")
    /\ resp[1].body[1].total_income > 0
    /\ resp[1].body[1].balance < 0
    /\ \E t \in Range(resp[1].loc.transactions) :
          /\ t.type = "expense"
          /\ \A c \in Range(resp[1].loc.categories) : c.id # t.category_id

\* a date as a number of days, every month counted with 31 days
DayNumber(date) == ((date.y * 12) + (date.m - 1)) * 31 + (date.d - 1)

\* start <= date < end, where start is the first day of the month and end the
\* first day of the month after it
InInterval(date, year, month) ==
    LET start == DayNumber([y |-> year, m |-> month, d |-> 1])
        end == IF month = 12 THEN DayNumber([y |-> year + 1, m |-> 1, d |-> 1])
               ELSE DayNumber([y |-> year, m |-> month + 1, d |-> 1])
    IN  start <= DayNumber(date) /\ DayNumber(date) < end

ExpensesOf(fetched, c) ==
    {i \in DOMAIN fetched : fetched[i].type = "expense" /\ fetched[i].category_id = c}
GroupSum(fetched, c) == SumAmounts({fetched[i] : i \in ExpensesOf(fetched, c)})
GroupFirst(fetched, c) ==
    CHOOSE i \in ExpensesOf(fetched, c) : \A j \in ExpensesOf(fetched, c) : i <= j

\* group c comes before group d: the larger sum, else the one met first
GroupBefore(fetched, c, d) ==
    \/ GroupSum(fetched, c) > GroupSum(fetched, d)
    \/ /\ GroupSum(fetched, c) = GroupSum(fetched, d)
       /\ GroupFirst(fetched, c) < GroupFirst(fetched, d)

\* the category ids of the fetched expenses
Groups(fetched) ==
    {fetched[i].category_id : i \in {j \in DOMAIN fetched : fetched[j].type = "expense"}}

\* the first five groups in that order
FirstFive(fetched) ==
    {c \in Groups(fetched) :
        Cardinality({d \in Groups(fetched) : GroupBefore(fetched, d, c)}) < 5}

\* C13: top_categories is the fetched expenses grouped by category_id and
\* summed, ordered by sum descending with equal sums in the order first met,
\* cut to the first 5 groups, and of these the ones whose category_id is a
\* category of the caller: at most 5 entries, sorted by amount descending, each
\* with the name, the summed amount and the color of its category.  An expense
\* of a category that does not resolve is not in the list and is counted in
\* total_expenses and transactions_count.
ReportTopCategories ==
    Answered("get_monthly_report") =>
       LET report == resp[1].body[1]
           top == report.top_categories
           fetched == resp[1].loc.transactions
           cats == Range(resp[1].loc.categories)
           kept == {c \in FirstFive(fetched) : \E k \in cats : k.id = c}
           place(c) == 1 + Cardinality({d \in kept : GroupBefore(fetched, d, c)})
       IN  /\ \A k \in cats : k.user_id = resp[1].user[1].id
           /\ Len(top) = Cardinality(kept)
           /\ Len(top) <= 5
           /\ \A i, j \in DOMAIN top : i < j => top[i].amount >= top[j].amount
           /\ \A c \in kept :
                 \E k \in cats :
                    /\ k.id = c
                    /\ top[place(c)] = [category |-> k.name,
                                        amount |-> GroupSum(fetched, c),
                                        color |-> k.color]
           /\ report.total_expenses =
                 SumAmounts({t \in Range(fetched) : t.type = "expense"})
           /\ report.transactions_count = Len(fetched)

\* C13, witness: six groups of expenses, the largest of a deleted category:
\* the list has the four other groups of the first five, and the sixth group,
\* of an existing category, is not in it.
ReportTopCategoriesWitness ==
    /\ Answered("get_monthly_report")
    /\ Cardinality(Groups(resp[1].loc.transactions)) = 6
    /\ Len(resp[1].body[1].top_categories) = 4
    /\ \E c \in FirstFive(resp[1].loc.transactions) :
          \A k \in Range(resp[1].loc.categories) : k.id # c
    /\ \E c \in Groups(resp[1].loc.transactions) \ FirstFive(resp[1].loc.transactions) :
          \E k \in Range(resp[1].loc.categories) : k.id = c

\* C14: login upserts the user by email: also when callbacks for one unknown
\* email run concurrently, the users collection holds at most one user per
\* email.
OneUserPerEmail ==
    \A i, j \in DOMAIN users : users[i].email = users[j].email => i = j

\* the categories of user uid, in insertion order
CategoriesOf(uid) == SelectSeq(categories, LAMBDA c : c.user_id = uid)

\* a callback is inserting the default categories of user uid
Seeding(uid) ==
    \E p \in Procs : req[p].pc = "cb_insert_category" /\ req[p].loc.user_id = uid

\* C15: a callback inserts the 8 default categories (is_default, user_id of
\* the new user) exactly when it has inserted the user itself; a callback for a
\* user that exists inserts no category; a successful callback inserts one new
\* session of that user with expires_at = login time + 7 days and leaves the
\* other sessions in place.
SeedingOnce ==
    /\ [](\A u \in Range(users) :
            LET mine == CategoriesOf(u.id)
            IN  /\ Len(mine) <= Len(DefaultCategories)
                /\ ~Seeding(u.id) => Len(mine) = Len(DefaultCategories)
                /\ \A i \in DOMAIN mine :
                      /\ mine[i].is_default
                      /\ mine[i].name = DefaultCategories[i].name
                      /\ mine[i].color = DefaultCategories[i].color)
    /\ [][\A p \in Procs :
            Moves(p) =>
               LET loc == req[p].loc
                   inserted == users' # users
               IN  IF req[p].op # "auth_callback"
                   THEN UNCHANGED <<users, sessions, categories>>
                   ELSE /\ inserted <=> (~loc.created /\ ~Answers(p)
                                           /\ req'[p].loc.created)
                        /\ inserted =>
                              /\ Len(users') = Len(users) + 1
                              /\ SubSeq(users', 1, Len(users)) = users
                              /\ users'[Len(users')].email = loc.email
                              /\ users'[Len(users')].id = req'[p].loc.user_id
                        /\ categories' # categories =>
                              /\ loc.created
                              /\ Len(categories') = Len(categories) + 1
                              /\ SubSeq(categories', 1, Len(categories)) = categories
                              /\ categories'[Len(categories')].user_id = loc.user_id
                              /\ categories'[Len(categories')].is_default
                        /\ IF Answers(p) /\ resp'[1].status = 200
                           THEN /\ Len(sessions') = Len(sessions) + 1
                                /\ SubSeq(sessions', 1, Len(sessions)) = sessions
                                /\ sessions'[Len(sessions')].user_id = loc.user_id
                                /\ sessions'[Len(sessions')].expires_at
                                      = now + SessionDays
                                /\ \E u \in Range(users) :
                                      u.id = loc.user_id /\ u.email = loc.email
                                /\ loc.created =>
                                      Len(CategoriesOf(loc.user_id))
                                         = Len(DefaultCategories)
                           ELSE sessions' = sessions
         ]_vars

\* C15, witness: on a later day a callback for a user that exists has ended:
\* the user has its 8 categories, its session of the first login and the new
\* one.
SeedingOnceWitness ==
    /\ Answered("auth_callback")
    /\ resp[1].status = 200
    /\ ~resp[1].loc.created
    /\ now > 0
    /\ Len(CategoriesOf(resp[1].loc.user_id)) = Len(DefaultCategories)
    /\ \E s, t \in Range(sessions) :
          /\ s.user_id = resp[1].loc.user_id /\ s.expires_at = SessionDays
          /\ t.user_id = resp[1].loc.user_id /\ t.expires_at = now + SessionDays
          /\ t = resp[1].session[1]

\* C16: paused is unreachable: under every order and interleaving of
\* create_goal, add_to_goal and delete_goal every stored goal is active or
\* completed.
PausedUnreachable ==
    \A g \in Range(goals) : g.status \in {"active", "completed"}

\* C16, witness: a goal has been created and completed by one add_to_goal
\* request while another one, which has read it as active, is about to write.
PausedUnreachableWitness ==
    /\ Answered("add_to_goal")
    /\ resp[1].status = 200
    /\ resp[1].body[1].status = "completed"
    /\ resp[1].body[1] \in Range(goals)
    /\ \E p \in Procs :
          /\ req[p].pc = "atg_update"
          /\ req[p].loc.id = resp[1].loc.id
          /\ req[p].loc.status = "active"

\* C17: a stored goal is completed exactly when its current_amount has reached
\* its target_amount, also for a goal created with target_amount <= 0.
StatusMatchesAmount ==
    \A g \in Range(goals) :
       g.status = "completed" <=> g.current_amount >= g.target_amount

\* C18: an add_to_goal (with a valid amount) or update_transaction request ends
\* as not found (404) or as a success that returns the stored record, never as
\* an internal error, also when a delete of the record comes between its write
\* and its re-read.
NotFoundOrSuccess ==
    (/\ resp # <<>>
     /\ resp[1].op \in {"add_to_goal", "update_transaction"}
     /\ resp[1].status # 422)
    => /\ resp[1].status \in {200, 404}
       /\ resp[1].status = 200 => Len(resp[1].body) = 1

====
